---- MODULE Spec2Model ----
(***************************************************************************)
(* A model of newsservice: the Postgres-backed repository (SaveNews,       *)
(* GetNewsCount, GetNewsByFilter, GetDetailedNews, Close), the pagination  *)
(* calculator, the RSS parser, the HTTP fetcher, the ProcessFeed use case, *)
(* the list handlers of the HTTP transport and the ingestion goroutines    *)
(* of Run.  The database is modelled by the                                *)
(* table `news` of storage/contracts.go and by what a statement sent to it *)
(* does: a statement that does not parse, names a column the table lacks   *)
(* or violates a constraint is answered with an error.                     *)
(***************************************************************************)
EXTENDS Integers, Sequences, FiniteSets, TLC

VARIABLES
    news,       \* the committed rows of table news
    nextId,     \* the next value of the SERIAL sequence behind news.id
    pc,         \* per caller: where its SaveNews call stands
    feedArg,    \* per caller: the feed handed to SaveNews
    tx,         \* per caller: the state of the transaction its call opened
    ret,        \* per caller: what its last SaveNews call returned
    before,     \* per caller: the committed rows when its call started
    repeat,     \* per caller: the call repeats the feed of its previous call
    fault,      \* per caller: the environment failed during the call
    cnt,        \* the last GetNewsCount call and its result
    res,        \* the last GetNewsByFilter call and its result
    pg,         \* the Pagination value
    pgOp,       \* the last pagination operation
    pgIn,       \* the arguments of the last pagination operation
    doc,        \* the document handed to Parse
    ctxErr,     \* whether the context handed to Parse is already done
    parseOut,   \* what Parse returned
    ft,         \* the Fetch call: where it stands, the reply, what it returned
    uc,         \* the ProcessFeed call: its stage and what each stage did
    lp,         \* per source: where its asynParser loop stands
    cycles,     \* per source: the rss.Parse calls its loop has made
    waited,     \* per source: the loop slept since its last rss.Parse
    ec,         \* the goroutine that ranges over errorStream
    st,         \* the Storage value: db, isClosed, mutex, the pool
    cl,         \* per caller: where its Close call stands
    det,        \* the last GetDetailedNews call and its result
    lifecycle,  \* whether the end of the service's lifecycle was asked for
    val,        \* the last Validate call: the value it was given, its result
    hd,         \* the last list-handler request and what the handler did
    opOut       \* the last repository operation run around Close

storeVars == <<news, nextId, pc, feedArg, tx, ret, before, repeat, fault>>
queryVars == <<cnt, res>>
pageVars  == <<pg, pgOp, pgIn>>
parseVars == <<doc, ctxErr, parseOut>>
fetchVars == <<ft, uc>>
loopVars  == <<lp, cycles, waited, ec>>
closeVars == <<st, cl>>
lastVars  == <<lifecycle, val, hd, opOut>>
lateVars  == <<fetchVars, loopVars, closeVars, det, lastVars>>
vars == <<storeVars, queryVars, pageVars, parseVars, lateVars>>

(***************************************************************************)
(* Bounds of the model.                                                    *)
(***************************************************************************)
MaxItems == 2           \* items of a feed handed to SaveNews
MaxDocItems == 3        \* items of a document handed to Parse
MaxTotal == 45          \* largest total handed to pagination.New
MaxRequestedPage == 5   \* largest page handed to pagination.New

Procs == {1, 2}
Links == {"a", "b"}
NULL == "NULL"
Nil == "nil"

SeqsUpTo(S, n) == UNION {[1..k -> S] : k \in 0..n}

(***************************************************************************)
(* The table.  DayOf is SQL's DATE(): instants 2d and 2d+1 fall on day d.  *)
(***************************************************************************)
Schema ==
    {"id", "title", "description", "content", "author", "published_at",
     "source", "link", "created_at", "updated_at"}

NotNullColumns ==
    {"title", "description", "content", "author", "published_at", "source", "link"}

DayOf(t) == t \div 2

SeedRows ==
    { [id |-> 1, title |-> "t", description |-> "d", content |-> "d",
       author |-> "ann", published_at |-> 2, source |-> "s1", link |-> "a"],
      [id |-> 2, title |-> "t", description |-> "d", content |-> "d",
       author |-> "bob", published_at |-> 3, source |-> "s1", link |-> "b"],
      [id |-> 2, title |-> "t", description |-> "d", content |-> "d",
       author |-> "ann", published_at |-> 4, source |-> "s2", link |-> "b"] }

\* link ... UNIQUE and id ... PRIMARY KEY
TableOK(T) ==
    \A r1, r2 \in T : (r1.link = r2.link \/ r1.id = r2.id) => r1 = r2

InitTables == {T \in SUBSET SeedRows : TableOK(T)}

FirstFreeId == 1 + Cardinality(SeedRows)

(***************************************************************************)
(* Storage.SaveNews.                                                       *)
(***************************************************************************)
SourceName(p) == IF p = 1 THEN "s1" ELSE "s2"

SaveItems ==
    {[Title |-> "t", Link |-> l, Description |-> "d", PubDate |-> 2] : l \in Links}

Feeds(p) ==
    {[Title |-> SourceName(p), Link |-> "u", Description |-> "d", Items |-> s] :
        s \in SeqsUpTo(SaveItems, MaxItems)}

EmptyFeed == [Title |-> "", Link |-> "", Description |-> "", Items |-> <<>>]

\* The statement text of SaveNews: the columns it names, its $n placeholders,
\* its opening and closing parentheses, its conflict target.
InsertQuery ==
    [columns |-> <<"title", "description", "content", "author",
                   "published_at", "source", "link">>,
     placeholders |-> 7,
     opened |-> 3,
     closed |-> 4,
     conflict |-> "link"]

\* The arguments batch.Queue is given for one item.
Arg(v) == [null |-> FALSE, val |-> v]
NilArg == [null |-> TRUE, val |-> NULL]

QueuedArgs(feed, item) ==
    <<Arg(item.Title), Arg(item.Description), Arg(item.Description), NilArg,
      Arg(item.PubDate), Arg(feed.Title), Arg(item.Link), NilArg>>

ArgOf(q, args, col) ==
    args[CHOOSE i \in 1..Len(q.columns) : q.columns[i] = col]

\* The database executing one queued INSERT ... ON CONFLICT (link) DO NOTHING
\* inside a transaction that sees the rows of `table`.
ExecInsert_noChecks(table, id, q, args) ==
    [err |-> Nil,
     rows |-> {[id |-> id, title |-> args[1].val, description |-> args[2].val,
                content |-> args[3].val, author |-> args[4].val,
                published_at |-> args[5].val, source |-> args[6].val,
                link |-> args[7].val]},
     nextId |-> id + 1]

ExecInsert(table, id, q, args) ==
    IF q.opened # q.closed
    THEN [err |-> "syntax", rows |-> {}, nextId |-> id]
    ELSE IF Len(args) # q.placeholders
    THEN [err |-> "args", rows |-> {}, nextId |-> id]
    ELSE IF \E i \in 1..Len(q.columns) : q.columns[i] \notin Schema
    THEN [err |-> "column", rows |-> {}, nextId |-> id]
    ELSE IF \E c \in NotNullColumns :
               c \notin {q.columns[i] : i \in 1..Len(q.columns)}
               \/ ArgOf(q, args, c).null
    THEN [err |-> "notnull", rows |-> {}, nextId |-> id + 1]
    ELSE IF \E r \in table : r[q.conflict] = ArgOf(q, args, q.conflict).val
    THEN [err |-> Nil, rows |-> {}, nextId |-> id + 1]
    ELSE [err |-> Nil,
          rows |-> {[id |-> id,
                     title |-> ArgOf(q, args, "title").val,
                     description |-> ArgOf(q, args, "description").val,
                     content |-> ArgOf(q, args, "content").val,
                     author |-> ArgOf(q, args, "author").val,
                     published_at |-> ArgOf(q, args, "published_at").val,
                     source |-> ArgOf(q, args, "source").val,
                     link |-> ArgOf(q, args, "link").val]},
          nextId |-> id + 1]

\* tx.SendBatch and batchResult.Close: the queued statements run in order, each
\* seeing the rows of the ones before it; the first error ends the batch.
\* envFail is the statement at which the connection or the context fails
\* (0: at none).  rows are the rows written inside the transaction.
RECURSIVE SendBatchFrom(_, _, _, _, _)
SendBatchFrom(table, id, feed, envFail, i) ==
    IF i > Len(feed.Items)
    THEN [err |-> Nil, rows |-> {}, nextId |-> id]
    ELSE IF i = envFail
    THEN [err |-> "conn", rows |-> {}, nextId |-> id]
    ELSE LET r == ExecInsert(table, id, InsertQuery, QueuedArgs(feed, feed.Items[i]))
         IN  IF r.err # Nil
             THEN [err |-> r.err, rows |-> {}, nextId |-> r.nextId]
             ELSE LET rest == SendBatchFrom(table \cup r.rows, r.nextId,
                                            feed, envFail, i + 1)
                  IN  [err |-> rest.err,
                       rows |-> r.rows \cup rest.rows,
                       nextId |-> rest.nextId]

SendBatch(table, id, feed, envFail) == SendBatchFrom(table, id, feed, envFail, 1)

\* The deferred function of SaveNews, without its recover() arm: it rolls back
\* when the variable err that Begin assigned is not nil.
DeferredRollback(err, txState) ==
    IF err # Nil THEN "rolledback" ELSE txState

\* A SaveNews that sends each statement outside any transaction, each
\* statement well formed: what is written before a failure stays.
RECURSIVE SaveNewsTx_autocommitFrom(_, _, _, _, _)
SaveNewsTx_autocommitFrom(table, id, feed, envFail, i) ==
    IF i > Len(feed.Items)
    THEN [err |-> Nil, table |-> table, nextId |-> id]
    ELSE IF i = envFail
    THEN [err |-> "conn", table |-> table, nextId |-> id]
    ELSE LET a == QueuedArgs(feed, feed.Items[i])
             new == IF \E r \in table : r.link = a[7].val
                    THEN {}
                    ELSE ExecInsert_noChecks(table, id, InsertQuery, a).rows
         IN  SaveNewsTx_autocommitFrom(table \cup new, id + 1, feed, envFail, i + 1)

SaveNewsTx_autocommit(table, id, feed, envFail, commitOK) ==
    LET b == SaveNewsTx_autocommitFrom(table, id, feed, envFail, 1)
    IN  IF b.err # Nil
        THEN [count |-> 0, err |-> "batch", cause |-> b.err,
              table |-> b.table, nextId |-> b.nextId, tx |-> "none"]
        ELSE [count |-> Len(feed.Items), err |-> Nil, cause |-> Nil,
              table |-> b.table, nextId |-> b.nextId, tx |-> "none"]

\* A SaveNews whose statement is well formed and ends in ON CONFLICT (link)
\* DO UPDATE SET source = EXCLUDED.source: a row whose link the feed holds is
\* rewritten in place.
SaveNewsTx_upsert(table, id, feed, envFail, commitOK) ==
    LET links == {feed.Items[i].Link : i \in 1..Len(feed.Items)}
    IN  [count |-> Len(feed.Items), err |-> Nil, cause |-> Nil,
         table |-> {IF r.link \in links THEN [r EXCEPT !.source = feed.Title] ELSE r :
                        r \in table},
         nextId |-> id + Len(feed.Items),
         tx |-> "committed"]

\* A SaveNews that returns len(feed.Items) on every path past Begin.
SaveNewsTx_countOnFailure(table, id, feed, envFail, commitOK) ==
    LET b == SendBatch(table, id, feed, envFail)
    IN  IF b.err # Nil
        THEN [count |-> Len(feed.Items), err |-> "batch", cause |-> b.err,
              table |-> table, nextId |-> b.nextId, tx |-> "open"]
        ELSE IF ~commitOK
        THEN [count |-> Len(feed.Items), err |-> "commit", cause |-> "commit",
              table |-> table, nextId |-> b.nextId, tx |-> "commitFailed"]
        ELSE [count |-> Len(feed.Items), err |-> Nil, cause |-> Nil,
              table |-> table \cup b.rows, nextId |-> b.nextId,
              tx |-> "committed"]

\* SaveNews from the batch to its return, the deferred function included.
\* The err the deferred function reads is the one of `tx, err := s.db.Begin`,
\* nil once Begin has succeeded: the `if err := ...` of the batch and of the
\* commit declare variables of their own, and the function's results are
\* unnamed.
SaveNewsTx(table, id, feed, envFail, commitOK) ==
    LET err == Nil
        b == SendBatch(table, id, feed, envFail)
    IN  IF b.err # Nil
        THEN [count |-> 0, err |-> "batch", cause |-> b.err,
              table |-> table, nextId |-> b.nextId,
              tx |-> DeferredRollback(err, "open")]
        ELSE IF ~commitOK
        THEN [count |-> 0, err |-> "commit", cause |-> "commit",
              table |-> table, nextId |-> b.nextId,
              tx |-> DeferredRollback(err, "commitFailed")]
        ELSE [count |-> Len(feed.Items), err |-> Nil, cause |-> Nil,
              table |-> table \cup b.rows, nextId |-> b.nextId,
              tx |-> DeferredRollback(err, "committed")]

NoReturn == [count |-> 0, err |-> Nil]

\* SaveNews up to Begin: the empty feed returns at once, a failed Begin
\* returns the error, a successful one leaves the transaction open.
SaveNewsCall(p, feed, beginOK) ==
    /\ pc[p] \in {"idle", "done"}
    /\ feedArg' = [feedArg EXCEPT ![p] = feed]
    /\ before' = [before EXCEPT ![p] = news]
    /\ repeat' = [repeat EXCEPT ![p] = (pc[p] = "done" /\ feedArg[p] = feed)]
    /\ IF Len(feed.Items) = 0
       THEN /\ pc' = [pc EXCEPT ![p] = "done"]
            /\ ret' = [ret EXCEPT ![p] = [count |-> 0, err |-> Nil]]
            /\ tx' = [tx EXCEPT ![p] = "none"]
            /\ fault' = [fault EXCEPT ![p] = FALSE]
       ELSE IF ~beginOK
       THEN /\ pc' = [pc EXCEPT ![p] = "done"]
            /\ ret' = [ret EXCEPT ![p] = [count |-> 0, err |-> "begin"]]
            /\ tx' = [tx EXCEPT ![p] = "none"]
            /\ fault' = [fault EXCEPT ![p] = TRUE]
       ELSE /\ pc' = [pc EXCEPT ![p] = "begun"]
            /\ ret' = [ret EXCEPT ![p] = NoReturn]
            /\ tx' = [tx EXCEPT ![p] = "open"]
            /\ fault' = [fault EXCEPT ![p] = FALSE]
    /\ UNCHANGED <<news, nextId, queryVars, pageVars, parseVars, lateVars>>

\* SaveNews from the batch on: queue, send, close, commit, return.
SaveNewsExec(p, envFail, commitOK) ==
    /\ pc[p] = "begun"
    /\ LET out == SaveNewsTx(news, nextId, feedArg[p], envFail, commitOK)
       IN  /\ news' = out.table
           /\ nextId' = out.nextId
           /\ tx' = [tx EXCEPT ![p] = out.tx]
           /\ ret' = [ret EXCEPT ![p] = [count |-> out.count, err |-> out.err]]
           /\ fault' = [fault EXCEPT ![p] = out.cause \in {"conn", "commit"}]
    /\ pc' = [pc EXCEPT ![p] = "done"]
    /\ UNCHANGED <<feedArg, before, repeat, queryVars, pageVars, parseVars, lateVars>>

(***************************************************************************)
(* Storage.GetNewsCount and Storage.GetNewsByFilter.                       *)
(***************************************************************************)
ZeroTime == 0   \* time.Time{}: what IsZero() answers true for

Filters ==
    [Category : {"", "tech"}, Author : {"", "ann"}, Date : {ZeroTime, 2},
     Limit : {0, 1}, Offset : {0, 1}, OrderBy : {"", "id"}]

NoFilter ==
    [Category |-> "", Author |-> "", Date |-> ZeroTime,
     Limit |-> 0, Offset |-> 0, OrderBy |-> ""]

\* The WHERE conditions each query appends: equalities on a column, and
\* equalities of DATE(column) with the filter's day.
CountWhere(f) ==
    [eq |-> (IF f.Category # "" THEN {<<"category", f.Category>>} ELSE {})
            \cup (IF f.Author # "" THEN {<<"author", f.Author>>} ELSE {}),
     dateEq |-> IF f.Date # ZeroTime
                THEN {<<"publisher_at", DayOf(f.Date)>>}
                ELSE {}]

FilterWhere(f) ==
    [eq |-> (IF f.Category # "" THEN {<<"category", f.Category>>} ELSE {})
            \cup (IF f.Author # "" THEN {<<"author", f.Author>>} ELSE {}),
     dateEq |-> IF f.Date # ZeroTime
                THEN {<<"published_at", DayOf(f.Date)>>}
                ELSE {}]

WhereColumns(w) == {c[1] : c \in w.eq} \cup {c[1] : c \in w.dateEq}

RowSatisfies(r, w) ==
    /\ \A c \in w.eq : r[c[1]] = c[2]
    /\ \A c \in w.dateEq : DayOf(r[c[1]]) = c[2]

\* SELECT COUNT(*) FROM news WHERE ...; a column the table lacks fails the query.
GetNewsCount(table, f) ==
    LET w == CountWhere(f)
    IN  IF ~(WhereColumns(w) \subseteq Schema)
        THEN [n |-> 0, err |-> "failed to count news"]
        ELSE [n |-> Cardinality({r \in table : RowSatisfies(r, w)}), err |-> Nil]

\* The columns GetNewsByFilter selects, and the number of destinations of
\* its rows.Scan.
FilterSelect ==
    <<"news_id", "title", "description", "content", "author",
      "published_at", "source", "link", "category">>

FilterScanDests ==
    <<"NewsID", "Title", "Description", "Content", "Author",
      "PublishedAt", "Source", "Link">>

SetToSeq(S) ==
    CHOOSE s \in [1..Cardinality(S) -> S] : {s[i] : i \in 1..Cardinality(S)} = S

\* ORDER BY published_at DESC unless the filter names an ordering.
OrderRows(S, orderBy) ==
    IF orderBy = ""
    THEN SortSeq(SetToSeq(S), LAMBDA a, b : a.published_at > b.published_at)
    ELSE SortSeq(SetToSeq(S), LAMBDA a, b : a[orderBy] < b[orderBy])

Min(a, b) == IF a < b THEN a ELSE b

\* LIMIT and OFFSET are appended only when positive.
LimitOffset(s, limit, offset) ==
    LET from == IF offset > 0 THEN offset + 1 ELSE 1
        to == IF limit > 0 THEN Min(Len(s), from + limit - 1) ELSE Len(s)
    IN  SubSeq(s, from, to)

GetNewsByFilter(table, f) ==
    LET w == FilterWhere(f)
        orderCol == IF f.OrderBy # "" THEN f.OrderBy ELSE "published_at"
        named == {FilterSelect[i] : i \in 1..Len(FilterSelect)}
                 \cup WhereColumns(w) \cup {orderCol}
    IN  IF ~(named \subseteq Schema)
        THEN [rows |-> <<>>, err |-> "failed to query news"]
        ELSE LET found == LimitOffset(
                              OrderRows({r \in table : RowSatisfies(r, w)}, f.OrderBy),
                              f.Limit, f.Offset)
             IN  IF Len(found) > 0 /\ Len(FilterSelect) # Len(FilterScanDests)
                 THEN [rows |-> <<>>, err |-> "failed to scan news row"]
                 ELSE [rows |-> found, err |-> Nil]

NoCount == [called |-> FALSE, filter |-> NoFilter, n |-> 0, err |-> Nil]
NoRows == [called |-> FALSE, filter |-> NoFilter, rows |-> <<>>, err |-> Nil]

GetNewsCountCall(f) ==
    /\ cnt' = [called |-> TRUE, filter |-> f,
               n |-> GetNewsCount(news, f).n, err |-> GetNewsCount(news, f).err]
    /\ UNCHANGED <<res, storeVars, pageVars, parseVars, lateVars>>

GetNewsByFilterCall(f) ==
    /\ res' = [called |-> TRUE, filter |-> f,
               rows |-> GetNewsByFilter(news, f).rows,
               err |-> GetNewsByFilter(news, f).err]
    /\ UNCHANGED <<cnt, storeVars, pageVars, parseVars, lateVars>>

(***************************************************************************)
(* The pagination calculator.                                              *)
(***************************************************************************)
NEWS_PER_PAGE == 20

calculateTotalPages_floor(totalResults) ==
    IF totalResults <= 0 THEN 0 ELSE totalResults \div NEWS_PER_PAGE

calculateTotalPages(totalResults) ==
    IF totalResults <= 0
    THEN 0
    ELSE IF totalResults % NEWS_PER_PAGE # 0
         THEN (totalResults \div NEWS_PER_PAGE) + 1
         ELSE totalResults \div NEWS_PER_PAGE

New_noClamp(totalResults, currentPage) ==
    LET page == IF currentPage < 1 THEN 1 ELSE currentPage
        total == IF totalResults < 0 THEN 0 ELSE totalResults
        totalPages == calculateTotalPages(total)
        hasNext == page < totalPages
        hasPrev == page > 1
    IN  [TotalResults |-> total, TotalPages |-> totalPages, CurrentPage |-> page,
         NewsPerPage |-> NEWS_PER_PAGE, Results |-> <<>>,
         HasNext |-> hasNext, HasPrev |-> hasPrev,
         NextPage |-> IF hasNext THEN page + 1 ELSE 0,
         PrevPage |-> IF hasPrev THEN page - 1 ELSE 0]

New(totalResults, currentPage) ==
    LET page1 == IF currentPage < 1 THEN 1 ELSE currentPage
        total == IF totalResults < 0 THEN 0 ELSE totalResults
        totalPages == calculateTotalPages(total)
        page == IF page1 > totalPages /\ totalPages > 0 THEN totalPages ELSE page1
        hasNext == page < totalPages
        hasPrev == page > 1
    IN  [TotalResults |-> total, TotalPages |-> totalPages, CurrentPage |-> page,
         NewsPerPage |-> NEWS_PER_PAGE, Results |-> <<>>,
         HasNext |-> hasNext, HasPrev |-> hasPrev,
         NextPage |-> IF hasNext THEN page + 1 ELSE 0,
         PrevPage |-> IF hasPrev THEN page - 1 ELSE 0]

updateNavigation(p) ==
    [p EXCEPT !.HasNext = p.CurrentPage < p.TotalPages,
              !.HasPrev = p.CurrentPage > 1,
              !.NextPage = IF p.CurrentPage < p.TotalPages THEN p.CurrentPage + 1 ELSE 0,
              !.PrevPage = IF p.CurrentPage > 1 THEN p.CurrentPage - 1 ELSE 0]

SetResults_fullLastPage(p, results) ==
    IF Len(results) < p.NewsPerPage /\ p.CurrentPage = p.TotalPages
    THEN LET total == p.TotalPages * p.NewsPerPage + Len(results)
         IN  updateNavigation([p EXCEPT !.Results = results,
                                        !.TotalResults = total,
                                        !.TotalPages = calculateTotalPages(total)])
    ELSE [p EXCEPT !.Results = results]

\* A SetResults that corrects the totals on every short page, the last or not.
SetResults_anyPage(p, results) ==
    IF Len(results) < p.NewsPerPage
    THEN LET total == (p.TotalPages - 1) * p.NewsPerPage + Len(results)
         IN  updateNavigation([p EXCEPT !.Results = results,
                                        !.TotalResults = total,
                                        !.TotalPages = calculateTotalPages(total)])
    ELSE [p EXCEPT !.Results = results]

SetResults(p, results) ==
    IF Len(results) < p.NewsPerPage /\ p.CurrentPage = p.TotalPages
    THEN LET total == (p.TotalPages - 1) * p.NewsPerPage + Len(results)
         IN  updateNavigation([p EXCEPT !.Results = results,
                                        !.TotalResults = total,
                                        !.TotalPages = calculateTotalPages(total)])
    ELSE [p EXCEPT !.Results = results]

\* A result page of n rows, each named by its place.
ResultPage(n) == [i \in 1..n |-> i]

NoPage == New(0, 1)
NoPageIn == [total |-> 0, page |-> 1]

\* A handler builds one Pagination per request and attaches results to it.
PgNew(total, page) ==
    /\ pgOp = "none"
    /\ pg' = New(total, page)
    /\ pgOp' = "New"
    /\ pgIn' = [total |-> total, page |-> page]
    /\ UNCHANGED <<storeVars, queryVars, parseVars, lateVars>>

PgSetResults(n) ==
    /\ pgOp # "none"
    /\ pg' = SetResults(pg, ResultPage(n))
    /\ pgOp' = "SetResults"
    /\ UNCHANGED <<pgIn, storeVars, queryVars, parseVars, lateVars>>

\* The offset and the limit of the page a Pagination describes.
GetOffset(p) ==
    IF p.CurrentPage < 1 THEN 0 ELSE (p.CurrentPage - 1) * p.NewsPerPage

GetLimit(p) == p.NewsPerPage

\* A Validate without its test of NewsPerPage.
Validate_noPerPageCheck(p) ==
    IF p.CurrentPage < 1
    THEN "current page cannot be less than 1"
    ELSE IF p.TotalResults < 0
    THEN "total results cannot be negative"
    ELSE Nil

\* Validate reads three fields, in this order, and assigns none.
Validate(p) ==
    IF p.CurrentPage < 1
    THEN "current page cannot be less than 1"
    ELSE IF p.TotalResults < 0
    THEN "total results cannot be negative"
    ELSE IF p.NewsPerPage < 1
    THEN "news per page cannot be less than 1"
    ELSE Nil

\* Pagination's fields are exported: a caller can hand Validate any value.
PageValues ==
    {[NoPage EXCEPT !.CurrentPage = c, !.TotalResults = t, !.NewsPerPage = n] :
        c \in (0 - 1)..MaxRequestedPage,
        t \in {0 - 1, 0, MaxTotal},
        n \in {0 - 1, 0, 1, NEWS_PER_PAGE}}

NoValidate == [called |-> FALSE, p |-> NoPage, err |-> Nil]

ValidateCall ==
    /\ ~val.called
    /\ val' = [called |-> TRUE, p |-> pg, err |-> Validate(pg)]
    /\ pg' = pg
    /\ UNCHANGED <<pgOp, pgIn, storeVars, queryVars, parseVars,
                   fetchVars, loopVars, closeVars, det, lifecycle, hd, opOut>>

(***************************************************************************)
(* XMLParser.Parse.  A pubDate string is modelled by what time.Parse reads *)
(* of it: whether it starts with a weekday, the digits of its day and of   *)
(* its year, whether it has seconds, whether its zone is numeric (-0700)   *)
(* or an abbreviation (MST), whether white space surrounds it, whether its *)
(* fields are in range, and the instant t it denotes.                      *)
(***************************************************************************)
Date(wd, dd, yy, sec, zone, ws, valid, t) ==
    [form |-> "date", wd |-> wd, dd |-> dd, yy |-> yy, sec |-> sec,
     zone |-> zone, ws |-> ws, valid |-> valid, t |-> t]

NotADate(form) ==
    [form |-> form, wd |-> FALSE, dd |-> 0, yy |-> 0, sec |-> FALSE,
     zone |-> "", ws |-> FALSE, valid |-> FALSE, t |-> ZeroTime]

DateStrings ==
    { Date(TRUE, 2, 4, TRUE, "num", FALSE, TRUE, 2),    \* Mon, 02 Jan 2006 15:04:05 -0700
      Date(TRUE, 2, 4, TRUE, "abbr", FALSE, TRUE, 3),   \* Mon, 02 Jan 2006 15:04:05 GMT
      Date(FALSE, 2, 2, FALSE, "num", FALSE, TRUE, 4),  \* 02 Jan 06 15:04 -0700
      Date(FALSE, 2, 2, FALSE, "abbr", FALSE, TRUE, 5), \* 02 Jan 06 15:04 MST
      Date(TRUE, 1, 4, TRUE, "num", FALSE, TRUE, 6),    \* Mon, 2 Jan 2006 15:04:05 -0700
      Date(TRUE, 2, 4, TRUE, "num", TRUE, TRUE, 7),     \* the first, inside white space
      Date(TRUE, 1, 4, TRUE, "abbr", FALSE, TRUE, 8),   \* Mon, 2 Jan 2006 15:04:05 GMT
      Date(TRUE, 2, 4, TRUE, "num", FALSE, FALSE, 9),   \* Mon, 31 Feb 2006 15:04:05 -0700
      NotADate("iso"),                                  \* 2006-01-02T15:04:05Z
      NotADate("empty") }

\* The layouts of parsePubDate, in its order.  day "02" reads exactly two
\* digits, day "2" one or two.
Layout(wd, day, yy, sec, zone) ==
    [wd |-> wd, day |-> day, yy |-> yy, sec |-> sec, zone |-> zone]

Formats ==
    << Layout(TRUE, "02", 4, TRUE, "num"),     \* time.RFC1123Z
       Layout(TRUE, "02", 4, TRUE, "abbr"),    \* time.RFC1123
       Layout(FALSE, "02", 2, FALSE, "num"),   \* time.RFC822Z
       Layout(FALSE, "02", 2, FALSE, "abbr"),  \* time.RFC822
       Layout(TRUE, "2", 4, TRUE, "num") >>    \* Mon, 2 Jan 2006 15:04:05 -0700

TrimSpace(s) == [s EXCEPT !.ws = FALSE]

\* time.Parse(layout, value)
timeParse(layout, s) ==
    IF /\ s.form = "date"
       /\ ~s.ws
       /\ s.valid
       /\ layout.wd = s.wd
       /\ (layout.day = "02" => s.dd = 2)
       /\ layout.yy = s.yy
       /\ layout.sec = s.sec
       /\ layout.zone = s.zone
    THEN [t |-> s.t, err |-> Nil]
    ELSE [t |-> ZeroTime, err |-> "parsing time"]

RECURSIVE tryFormats(_, _, _)
tryFormats(formats, dateStr, i) ==
    IF i > Len(formats)
    THEN [t |-> ZeroTime, err |-> "fail to parse date in any known format"]
    ELSE LET r == timeParse(formats[i], TrimSpace(dateStr))
         IN  IF r.err = Nil THEN r ELSE tryFormats(formats, dateStr, i + 1)

parsePubDate(dateStr) == tryFormats(Formats, dateStr, 1)

\* The loop of Parse over rss.Channel.Items.
RECURSIVE ParseItems_keepUnparsed(_, _)
ParseItems_keepUnparsed(items, acc) ==
    IF items = <<>>
    THEN acc
    ELSE ParseItems_keepUnparsed(
             Tail(items),
             Append(acc, [Title |-> Head(items).Title, Link |-> Head(items).Link,
                          Description |-> Head(items).Description,
                          PubDate |-> parsePubDate(Head(items).PubDate).t]))

RECURSIVE ParseItems(_, _)
ParseItems(items, acc) ==
    IF items = <<>>
    THEN acc
    ELSE LET itemDTO == Head(items)
             r == parsePubDate(itemDTO.PubDate)
         IN  IF r.err # Nil
             THEN ParseItems(Tail(items), acc)
             ELSE ParseItems(
                      Tail(items),
                      Append(acc, [Title |-> itemDTO.Title, Link |-> itemDTO.Link,
                                   Description |-> itemDTO.Description,
                                   PubDate |-> r.t]))

\* A Parse that does not look at its context.
Parse_noCtxCheck(ctxDone, d) ==
    IF ~d.wellFormed
    THEN [feed |-> EmptyFeed, err |-> "failed to decode XML"]
    ELSE [feed |-> [Title |-> d.Title, Link |-> d.Link,
                    Description |-> d.Description,
                    Items |-> ParseItems(d.Items, <<>>)],
          err |-> Nil]

Parse(ctxDone, d) ==
    IF ctxDone
    THEN [feed |-> EmptyFeed, err |-> "context"]
    ELSE IF ~d.wellFormed
    THEN [feed |-> EmptyFeed, err |-> "failed to decode XML"]
    ELSE [feed |-> [Title |-> d.Title, Link |-> d.Link,
                    Description |-> d.Description,
                    Items |-> ParseItems(d.Items, <<>>)],
          err |-> Nil]

DocItems ==
    {[Title |-> "t", Link |-> "a", Description |-> "d", PubDate |-> s] :
        s \in DateStrings}

MalformedDoc ==
    [wellFormed |-> FALSE, Title |-> "", Link |-> "", Description |-> "",
     Items |-> <<>>]

Docs ==
    {MalformedDoc} \cup
    {[wellFormed |-> TRUE, Title |-> "s1", Link |-> "u", Description |-> "d",
      Items |-> s] : s \in SeqsUpTo(DocItems, MaxDocItems)}

NoParse == [called |-> FALSE, feed |-> EmptyFeed, err |-> Nil]

ParseCall ==
    /\ ~parseOut.called
    /\ parseOut' = [called |-> TRUE, feed |-> Parse(ctxErr, doc).feed,
                    err |-> Parse(ctxErr, doc).err]
    /\ UNCHANGED <<doc, ctxErr, storeVars, queryVars, pageVars, lateVars>>

(***************************************************************************)
(* HTTPFetcher.Fetch.  The client is http.DefaultClient, whose Timeout is  *)
(* zero (none), and the context events reach it through the request.  The  *)
(* server's reply is the environment's step; the server may never take it. *)
(***************************************************************************)
MaxBodyItems == 2      \* items of a document a server replies with

StatusOK == 200        \* http.StatusOK
ClientTimeout == 0     \* http.DefaultClient.Timeout: zero, no time limit
CtxHasDeadline == FALSE    \* ctxmain := context.Background()

Urls == {[valid |-> TRUE, name |-> "s1"], [valid |-> FALSE, name |-> ":"]}
NoUrl == [valid |-> FALSE, name |-> ""]

NoReply == [err |-> "none", status |-> 0, body |-> MalformedDoc]

\* What client.Do can come back with: a transport error, a response that is
\* not 200, a 200 response carrying a document.
Replies ==
    {[err |-> "transport", status |-> 0, body |-> MalformedDoc]}
    \cup {[err |-> Nil, status |-> s, body |-> MalformedDoc] : s \in {404, 500}}
    \cup {[err |-> Nil, status |-> StatusOK, body |-> d] :
              d \in {b \in Docs : Len(b.Items) <= MaxBodyItems}}

\* http.NewRequestWithContext(ctx, "GET", url, nil)
NewRequestWithContext(url) ==
    IF url.valid THEN Nil ELSE "failed to create request"

\* f.client.Do(req) coming back: with the reply when there is one, with the
\* deadline's error when the wait was cut short.
ClientDo(reply) ==
    IF reply # NoReply
    THEN reply
    ELSE [err |-> "timeout", status |-> 0, body |-> MalformedDoc]

\* Fetch from the return of client.Do on.  body is the state of resp.Body.
FetchResult_streamAnyStatus(r) ==
    IF r.err # Nil
    THEN [stream |-> FALSE, err |-> "failed to fetch url", body |-> "none"]
    ELSE [stream |-> TRUE, err |-> Nil, body |-> "open"]

FetchResult(r) ==
    IF r.err # Nil
    THEN [stream |-> FALSE, err |-> "failed to fetch url", body |-> "none"]
    ELSE IF r.status # StatusOK
    THEN [stream |-> FALSE, err |-> "unexpected status code", body |-> "closed"]
    ELSE [stream |-> TRUE, err |-> Nil, body |-> "open"]

NoFetch ==
    [pc |-> "idle", url |-> NoUrl, attempts |-> 0, reply |-> NoReply,
     stream |-> FALSE, err |-> Nil, body |-> "none"]

\* Fetch up to client.Do: a request that cannot be built returns at once,
\* otherwise the one request is sent.
FetchStart(url) ==
    /\ ft.pc \in {"idle", "returned"}
    /\ IF NewRequestWithContext(url) # Nil
       THEN ft' = [NoFetch EXCEPT !.pc = "returned", !.url = url,
                                  !.err = NewRequestWithContext(url)]
       ELSE ft' = [NoFetch EXCEPT !.pc = "waiting", !.url = url, !.attempts = 1]

FetchCall(url) ==
    /\ uc.pc = "idle"
    /\ FetchStart(url)
    /\ UNCHANGED <<uc, storeVars, queryVars, pageVars, parseVars,
                   loopVars, closeVars, det, lastVars>>

\* The server answers, or the transport fails.
ServerReply(r) ==
    /\ ft.pc = "waiting"
    /\ ft.reply = NoReply
    /\ ft' = [ft EXCEPT !.reply = r]
    /\ UNCHANGED <<uc, storeVars, queryVars, pageVars, parseVars,
                   loopVars, closeVars, det, lastVars>>

\* client.Do returns and Fetch runs to its return.  Without a reply, Do
\* returns only if the client or the context sets a time limit.
FetchReturn ==
    /\ ft.pc = "waiting"
    /\ ft.reply # NoReply \/ ClientTimeout > 0 \/ CtxHasDeadline
    /\ LET out == FetchResult(ClientDo(ft.reply))
       IN  ft' = [ft EXCEPT !.pc = "returned", !.stream = out.stream,
                            !.err = out.err, !.body = out.body]
    /\ UNCHANGED <<uc, storeVars, queryVars, pageVars, parseVars,
                   loopVars, closeVars, det, lastVars>>

(***************************************************************************)
(* FeedProcessingUseCase.ProcessFeed: Fetch, then Parse, then SaveNews.    *)
(***************************************************************************)
\* Storage.SaveNews as one call.
SaveNews(table, id, feed, beginOK, envFail, commitOK) ==
    IF Len(feed.Items) = 0
    THEN [count |-> 0, err |-> Nil, cause |-> Nil,
          table |-> table, nextId |-> id, tx |-> "none"]
    ELSE IF ~beginOK
    THEN [count |-> 0, err |-> "begin", cause |-> "begin",
          table |-> table, nextId |-> id, tx |-> "none"]
    ELSE SaveNewsTx(table, id, feed, envFail, commitOK)

\* A pipeline that keeps the items whose date no layout reads and whose
\* repository stores what it is sent.
ProcessFeed_persistAll(table, id, fetched, ctxDone, beginOK, envFail, commitOK) ==
    IF fetched.err # Nil
    THEN [err |-> "fetch failed", cause |-> fetched.err, stages |-> <<"fetch">>,
          parsed |-> FALSE, saved |-> FALSE,
          feed |-> EmptyFeed, table |-> table, nextId |-> id, tx |-> "none",
          body |-> fetched.body]
    ELSE LET d == fetched.reply.body
             feed == [Title |-> d.Title, Link |-> d.Link,
                      Description |-> d.Description,
                      Items |-> ParseItems_keepUnparsed(d.Items, <<>>)]
             s == SaveNewsTx_autocommit(table, id, feed, envFail, commitOK)
         IN  [err |-> Nil, cause |-> Nil, stages |-> <<"fetch", "parse", "save">>,
              parsed |-> TRUE, saved |-> TRUE, feed |-> feed,
              table |-> s.table, nextId |-> s.nextId, tx |-> s.tx,
              body |-> "closed"]

\* A pipeline that closes the stream at the end of the save stage instead of
\* deferring the Close: a failed Parse returns with the stream open.
ProcessFeed_closeAfterSave(table, id, fetched, ctxDone, beginOK, envFail, commitOK) ==
    IF fetched.err # Nil
    THEN [err |-> "fetch failed", cause |-> fetched.err, stages |-> <<"fetch">>,
          parsed |-> FALSE, saved |-> FALSE,
          feed |-> EmptyFeed, table |-> table, nextId |-> id, tx |-> "none",
          body |-> fetched.body]
    ELSE LET p == Parse(ctxDone, fetched.reply.body)
         IN  IF p.err # Nil
             THEN [err |-> "parse failed", cause |-> p.err,
                   stages |-> <<"fetch", "parse">>,
                   parsed |-> TRUE, saved |-> FALSE,
                   feed |-> EmptyFeed, table |-> table, nextId |-> id,
                   tx |-> "none", body |-> "open"]
             ELSE LET s == SaveNews(table, id, p.feed, beginOK, envFail, commitOK)
                  IN  [err |-> IF s.err # Nil THEN "save failed" ELSE Nil,
                       cause |-> s.err,
                       stages |-> <<"fetch", "parse", "save">>,
                       parsed |-> TRUE, saved |-> TRUE, feed |-> p.feed,
                       table |-> s.table, nextId |-> s.nextId, tx |-> s.tx,
                       body |-> "closed"]

\* ProcessFeed from the return of Fetch on; `defer reader.Close()` closes
\* the body on every path after a successful Fetch.
ProcessFeed(table, id, fetched, ctxDone, beginOK, envFail, commitOK) ==
    IF fetched.err # Nil
    THEN [err |-> "fetch failed", cause |-> fetched.err, stages |-> <<"fetch">>,
          parsed |-> FALSE, saved |-> FALSE,
          feed |-> EmptyFeed, table |-> table, nextId |-> id, tx |-> "none",
          body |-> fetched.body]
    ELSE LET p == Parse(ctxDone, fetched.reply.body)
         IN  IF p.err # Nil
             THEN [err |-> "parse failed", cause |-> p.err,
                   stages |-> <<"fetch", "parse">>,
                   parsed |-> TRUE, saved |-> FALSE,
                   feed |-> EmptyFeed, table |-> table, nextId |-> id,
                   tx |-> "none", body |-> "closed"]
             ELSE LET s == SaveNews(table, id, p.feed, beginOK, envFail, commitOK)
                  IN  [err |-> IF s.err # Nil THEN "save failed" ELSE Nil,
                       cause |-> s.err,
                       stages |-> <<"fetch", "parse", "save">>,
                       parsed |-> TRUE, saved |-> TRUE, feed |-> p.feed,
                       table |-> s.table, nextId |-> s.nextId, tx |-> s.tx,
                       body |-> "closed"]

NoProcess ==
    [pc |-> "idle", err |-> Nil, cause |-> Nil, stages |-> <<>>,
     parsed |-> FALSE, saved |-> FALSE,
     feed |-> EmptyFeed, tx |-> "none", before |-> {}]

\* ProcessFeed up to its call of Fetch.
ProcessFeedCall(url) ==
    /\ uc.pc = "idle"
    /\ FetchStart(url)
    /\ uc' = [NoProcess EXCEPT !.pc = "fetch", !.stages = <<"fetch">>]
    /\ UNCHANGED <<storeVars, queryVars, pageVars, parseVars,
                   loopVars, closeVars, det, lastVars>>

\* ProcessFeed from the return of Fetch to its own return.
ProcessFeedRun(ctxDone, beginOK, envFail, commitOK) ==
    /\ uc.pc = "fetch"
    /\ ft.pc = "returned"
    /\ LET out == ProcessFeed(news, nextId, ft, ctxDone, beginOK, envFail, commitOK)
       IN  /\ uc' = [pc |-> "returned", err |-> out.err, cause |-> out.cause,
                     stages |-> out.stages, parsed |-> out.parsed,
                     saved |-> out.saved, feed |-> out.feed, tx |-> out.tx,
                     before |-> news]
           /\ news' = out.table
           /\ nextId' = out.nextId
           /\ ft' = [ft EXCEPT !.body = out.body]
    /\ UNCHANGED <<pc, feedArg, tx, ret, before, repeat, fault,
                   queryVars, pageVars, parseVars, loopVars, closeVars, det, lastVars>>

(***************************************************************************)
(* Run's goroutines: one asynParser per source, and the goroutine that     *)
(* ranges over errorStream.  newsStream and errorStream are unbuffered: a  *)
(* send completes when a goroutine receives from the channel.              *)
(***************************************************************************)
MaxCycles == 3          \* rss.Parse calls counted per source

Sources == {"s1", "s2"}

\* The goroutines that receive from each channel made in Run.
Receivers(ch) ==
    IF ch = "errorStream" THEN {"errorLogger"} ELSE {}

\* The channel asynParser sends the outcome of rss.Parse to.
ChanOf(out) == IF out = "err" THEN "errorStream" ELSE "newsStream"

\* An error logger that leaves its loop after the first error.
CanReceive_once(ch, e) ==
    "errorLogger" \in Receivers(ch) /\ e.pc = "recv" /\ e.n = 0

\* Some goroutine is at its receive from ch.
CanReceive(ch, e) ==
    "errorLogger" \in Receivers(ch) /\ e.pc = "recv"

LoopStart == [pc |-> "parse", out |-> "none"]
NoLogger == [pc |-> "recv", n |-> 0]

\* asynParser: rss.Parse(source) returns, with the news or with an error.
RssParse(s, ok) ==
    /\ lp[s].pc = "parse"
    /\ lp' = [lp EXCEPT ![s] = [pc |-> "send", out |-> IF ok THEN "ok" ELSE "err"]]
    /\ cycles' = [cycles EXCEPT ![s] = IF @ < MaxCycles THEN @ + 1 ELSE @]
    /\ waited' = [waited EXCEPT ![s] = FALSE]
    /\ UNCHANGED <<ec, storeVars, queryVars, pageVars, parseVars,
                   fetchVars, closeVars, det, lastVars>>

\* asynParser after rss.Parse: `errs <- err; continue` on an error, else
\* `news <- rssnews` and then time.Sleep(interval), then the next turn.
LoopStep(s) ==
    /\ \/ lp[s].pc = "send" /\ CanReceive(ChanOf(lp[s].out), ec)
       \/ lp[s].pc = "sleep"
    /\ IF lp[s].pc = "sleep"
       THEN /\ lp' = [lp EXCEPT ![s].pc = "parse"]
            /\ waited' = [waited EXCEPT ![s] = TRUE]
            /\ ec' = ec
       ELSE /\ lp' = [lp EXCEPT ![s].pc = IF lp[s].out = "err"
                                          THEN "parse" ELSE "sleep"]
            /\ waited' = waited
            /\ ec' = [pc |-> "log", n |-> IF ec.n < MaxCycles THEN ec.n + 1 ELSE ec.n]
    /\ UNCHANGED <<cycles, storeVars, queryVars, pageVars, parseVars,
                   fetchVars, closeVars, det, lastVars>>

\* The error goroutine: log.Error, then back to its receive.
ErrLog ==
    /\ ec.pc = "log"
    /\ ec' = [ec EXCEPT !.pc = "recv"]
    /\ UNCHANGED <<lp, cycles, waited, storeVars, queryVars, pageVars,
                   parseVars, fetchVars, closeVars, det, lastVars>>

\* The context asynParser is handed stands for the lifecycle of the service.
\* Its cancellation is the environment's step.  asynParser has the parameter
\* ctx and never reads it, and rss.Parse(source) is not given it: the step
\* changes nothing a loop reads.
CancelLifecycle ==
    /\ lifecycle = "running"
    /\ lifecycle' = "cancelled"
    /\ UNCHANGED <<val, hd, opOut, storeVars, queryVars, pageVars, parseVars,
                   fetchVars, loopVars, closeVars, det>>

(***************************************************************************)
(* Storage.GetDetailedNews and NewsHandler.HandleDetailedNews.             *)
(***************************************************************************)
DetailSelect ==
    <<"id", "title", "description", "content", "author", "published_at",
      "source", "link">>

\* The destinations handed to rows.Scan.
DetailScanDests ==
    <<"NewsID", "Title", "Description", "Author", "PublishedAt", "Source", "Link">>

NoPost ==
    [id |-> 0, title |-> "", description |-> "", content |-> "", author |-> "",
     published_at |-> ZeroTime, source |-> "", link |-> ""]

\* QueryRow(...).Scan(...): pgx.ErrNoRows when no row has the id, else a scan
\* error when the destinations are not as many as the columns.
GetDetailedNews(table, newsID) ==
    IF \E i \in 1..Len(DetailSelect) : DetailSelect[i] \notin Schema
    THEN [post |-> NoPost, err |-> "unable scan row"]
    ELSE IF ~\E r \in table : r.id = newsID
    THEN [post |-> NoPost, err |-> "not found"]
    ELSE IF Len(DetailScanDests) # Len(DetailSelect)
    THEN [post |-> NoPost, err |-> "unable scan row"]
    ELSE [post |-> CHOOSE r \in table : r.id = newsID, err |-> Nil]

\* The status HandleDetailedNews renders for a well-formed request.
HandleDetailedNews(table, newsID) ==
    IF GetDetailedNews(table, newsID).err # Nil THEN 500 ELSE 200

NewsIds == 0..FirstFreeId

NoDetail == [called |-> FALSE, id |-> 0, post |-> NoPost, err |-> Nil, status |-> 0]

GetDetailedNewsCall(newsID) ==
    /\ det' = [called |-> TRUE, id |-> newsID,
               post |-> GetDetailedNews(news, newsID).post,
               err |-> GetDetailedNews(news, newsID).err,
               status |-> HandleDetailedNews(news, newsID)]
    /\ UNCHANGED <<storeVars, queryVars, pageVars, parseVars,
                   fetchVars, loopVars, closeVars, lastVars>>

(***************************************************************************)
(* NewsHandler.HandleGetNewsList and NewsHandler.HandleFilterNewsByContent, *)
(* from the params map of parseURLParams on: the request is a GET, its     *)
(* Kafka message was read and its query string parsed.  A parameter is     *)
(* modelled by what the handler reads of it: whether the map has the key,  *)
(* whether the string is empty, whether strconv.Atoi reads a number off    *)
(* it, whether time.Parse reads a day off it.  responses lists the calls   *)
(* of RenderError and RenderJSON by the status they were given, queries    *)
(* the calls of the repository in the order they were made.                *)
(***************************************************************************)
Absent == [kind |-> "absent", n |-> 0]
Empty == [kind |-> "empty", n |-> 0]
Word == [kind |-> "word", n |-> 0]
IntStr(n) == [kind |-> "int", n |-> n]
DayStr(d) == [kind |-> "day", n |-> d]

\* params[key] and the `exists` of `v, exists := params[key]`
Exists(v) == v.kind # "absent"
IsEmptyString(v) == v.kind \in {"absent", "empty"}

\* strconv.Atoi: the number and nil, or 0 and an error.
Atoi(v) ==
    IF v.kind = "int"
    THEN [n |-> v.n, err |-> Nil]
    ELSE [n |-> 0, err |-> "invalid syntax"]

\* time.Parse("2006-01-02", v): midnight of the day, or the zero time and
\* an error.
ParseDay(v) ==
    IF v.kind = "day"
    THEN [t |-> 2 * v.n, err |-> Nil]
    ELSE [t |-> ZeroTime, err |-> "cannot parse"]

PageParams == {Absent, Empty, Word} \cup {IntStr(n) : n \in (0 - 1)..MaxRequestedPage}
LimitParams == {Absent, Empty, Word} \cup {IntStr(n) : n \in {0, 1, NEWS_PER_PAGE}}
DateParams == {Absent, Empty, Word} \cup {DayStr(d) : d \in {1, 2}}

Params ==
    [page : PageParams, limit : LimitParams, date : DateParams,
     category : {"", "tech"}, author : {"", "ann"}]

ListParams ==
    {q \in Params : q.limit = Absent /\ q.date = Absent
                       /\ q.category = "" /\ q.author = ""}

NoParams ==
    [page |-> Absent, limit |-> Absent, date |-> Absent,
     category |-> "", author |-> ""]

\* A repository call under the request's context.WithTimeout: when the
\* deadline has passed the call returns the context's error.
CountUnder(table, f, expired) ==
    IF expired THEN [n |-> 0, err |-> "failed to count news"]
    ELSE GetNewsCount(table, f)

FilterUnder(table, f, expired) ==
    IF expired THEN [rows |-> <<>>, err |-> "failed to query news"]
    ELSE GetNewsByFilter(table, f)

CountQuery(f) == [op |-> "GetNewsCount", filter |-> f]
FilterQuery(f) == [op |-> "GetNewsByFilter", filter |-> f]

\* The handler from `filter := models.NewsFilter{...}` to its return; both
\* handlers run the same statements from there.  rendered lists the responses
\* rendered so far.  expired is the query at which the deadline has passed
\* (0: at none).
ListFrom(table, filter, page, rendered, expired) ==
    LET c == CountUnder(table, filter, expired = 1)
        paginator == New(c.n, page)
        r == FilterUnder(table, filter, expired = 2)
    IN  IF c.err # Nil
        THEN [responses |-> Append(rendered, 500),
              queries |-> <<CountQuery(filter)>>, paged |-> FALSE, pg |-> NoPage]
        ELSE IF Validate(paginator) # Nil
        THEN [responses |-> Append(rendered, 400),
              queries |-> <<CountQuery(filter)>>, paged |-> TRUE, pg |-> paginator]
        ELSE IF r.err # Nil
        THEN [responses |-> Append(rendered, 500),
              queries |-> <<CountQuery(filter), FilterQuery(filter)>>,
              paged |-> TRUE, pg |-> paginator]
        ELSE [responses |-> Append(rendered, 200),
              queries |-> <<CountQuery(filter), FilterQuery(filter)>>,
              paged |-> TRUE,
              pg |-> SetResults(paginator, [i \in 1..Len(r.rows) |-> r.rows[i].id])]

Rejected(responses) ==
    [responses |-> responses, queries |-> <<>>, paged |-> FALSE, pg |-> NoPage]

HandleGetNewsList(table, params, expired) ==
    IF ~Exists(params.page) \/ IsEmptyString(params.page)
    THEN Rejected(<<400>>)
    ELSE IF Atoi(params.page).err # Nil
    THEN Rejected(<<400>>)
    ELSE LET page == IF Atoi(params.page).n < 1 THEN 1 ELSE Atoi(params.page).n
             filter == [NoFilter EXCEPT !.Limit = NEWS_PER_PAGE,
                                        !.Offset = (page - 1) * NEWS_PER_PAGE]
         IN  ListFrom(table, filter, page, <<>>, expired)

\* Of the five tests of the parameters only the last, of time.Parse, is
\* followed by a return: after each of the others the handler goes on with
\* the value the failed conversion left (0 for a number).
HandleFilterNewsByContent(table, params, expired) ==
    LET page == Atoi(params.page)
        r1 == IF page.err # Nil THEN <<400>> ELSE <<>>
        r2 == IF ~Exists(params.limit) \/ IsEmptyString(params.limit)
              THEN Append(r1, 400) ELSE r1
        limit == Atoi(params.limit)
        r3 == IF limit.err # Nil THEN Append(r2, 400) ELSE r2
        r4 == IF ~Exists(params.date) \/ IsEmptyString(params.date)
              THEN Append(r3, 400) ELSE r3
        parsedDate == ParseDay(params.date)
    IN  IF parsedDate.err # Nil
        THEN Rejected(Append(r4, 400))
        ELSE ListFrom(table,
                      [NoFilter EXCEPT !.Category = params.category,
                                       !.Author = params.author,
                                       !.Date = parsedDate.t,
                                       !.Limit = limit.n,
                                       !.Offset = (page.n - 1) * limit.n],
                      page.n, r4, expired)

\* One request is followed from its arrival to the handler's return; a
\* handler keeps nothing from one request to the next.
NoRequest ==
    [handler |-> "none", params |-> NoParams, responses |-> <<>>,
     queries |-> <<>>, paged |-> FALSE, pg |-> NoPage]

HandleGetNewsListCall(params, expired) ==
    /\ hd.handler = "none"
    /\ LET out == HandleGetNewsList(news, params, expired)
       IN  hd' = [handler |-> "list", params |-> params,
                  responses |-> out.responses, queries |-> out.queries,
                  paged |-> out.paged, pg |-> out.pg]
    /\ UNCHANGED <<lifecycle, val, opOut, storeVars, queryVars, pageVars,
                   parseVars, fetchVars, loopVars, closeVars, det>>

HandleFilterNewsByContentCall(params, expired) ==
    /\ hd.handler = "none"
    /\ LET out == HandleFilterNewsByContent(news, params, expired)
       IN  hd' = [handler |-> "filtered", params |-> params,
                  responses |-> out.responses, queries |-> out.queries,
                  paged |-> out.paged, pg |-> out.pg]
    /\ UNCHANGED <<lifecycle, val, opOut, storeVars, queryVars, pageVars,
                   parseVars, fetchVars, loopVars, closeVars, det>>

(***************************************************************************)
(* Storage.Close.  s.db.Close() is pgxpool's: it returns when every        *)
(* connection has come back to the pool.  A transaction begun on the pool  *)
(* holds its connection until its Commit or its Rollback.                  *)
(***************************************************************************)
NoMutex == 0

Opened == [db |-> "pool", isClosed |-> FALSE, mutex |-> NoMutex, released |-> 0]

\* The callers whose transaction holds a connection of the pool.
ConnsHeld(txs) == {p \in Procs : txs[p] = "open"}

CloseCall(p) ==
    /\ cl[p] \in {"idle", "returned"}
    /\ cl' = [cl EXCEPT ![p] = "lock"]
    /\ UNCHANGED <<st, storeVars, queryVars, pageVars, parseVars,
                   fetchVars, loopVars, det, lastVars>>

\* s.mutex.Lock(), the isClosed test, and up to the call of s.db.Close().
CloseLock(p) ==
    /\ cl[p] = "lock"
    /\ st.mutex = NoMutex
    /\ IF st.isClosed
       THEN /\ cl' = [cl EXCEPT ![p] = "returned"]
            /\ st' = st
       ELSE IF st.db # "nil"
       THEN /\ cl' = [cl EXCEPT ![p] = "closing"]
            /\ st' = [st EXCEPT !.mutex = p]
       ELSE /\ cl' = [cl EXCEPT ![p] = "returned"]
            /\ st' = [st EXCEPT !.isClosed = TRUE]
    /\ UNCHANGED <<storeVars, queryVars, pageVars, parseVars,
                   fetchVars, loopVars, det, lastVars>>

\* s.db.Close() returns; s.db = nil, isClosed = true, the deferred Unlock.
ClosePool(p) ==
    /\ cl[p] = "closing"
    /\ ConnsHeld(tx) = {}
    /\ st' = [db |-> "nil", isClosed |-> TRUE, mutex |-> NoMutex,
              released |-> st.released + 1]
    /\ cl' = [cl EXCEPT ![p] = "returned"]
    /\ UNCHANGED <<storeVars, queryVars, pageVars, parseVars,
                   fetchVars, loopVars, det, lastVars>>

\* The repository's operations reach the pool through the field s.db, which
\* they read without taking s.mutex and without testing s.isClosed.
Operations == {"GetNewsCount", "GetDetailedNews", "GetNewsByFilter", "SaveNews"}

\* s.db.QueryRow, s.db.Query or s.db.Begin on the value read from s.db: a
\* method of a nil *pgxpool.Pool dereferences it, a pool that is closing
\* refuses to hand out a connection, a live pool serves the call.
UsePool(db, closing) ==
    IF db = "nil" THEN "nil dereference"
    ELSE IF closing THEN "error"
    ELSE "served"

NoOperation ==
    [called |-> FALSE, op |-> "none", closing |-> FALSE, closed |-> FALSE,
     outcome |-> "none"]

\* An operation called while Close calls are under way or have returned.
OperationCall(op) ==
    /\ opOut' = [called |-> TRUE, op |-> op,
                 closing |-> \E p \in Procs : cl[p] = "closing",
                 closed |-> st.isClosed,
                 outcome |-> UsePool(st.db, \E p \in Procs : cl[p] = "closing")]
    /\ UNCHANGED <<lifecycle, val, hd, storeVars, queryVars, pageVars,
                   parseVars, fetchVars, loopVars, closeVars, det>>

(***************************************************************************)
(* The specifications: the repository under SaveNews calls of two callers, *)
(* the repository under queries, the pagination calculator and the parser. *)
(***************************************************************************)
StoreIdle ==
    /\ nextId = FirstFreeId
    /\ pc = [p \in Procs |-> "idle"]
    /\ feedArg = [p \in Procs |-> EmptyFeed]
    /\ tx = [p \in Procs |-> "none"]
    /\ ret = [p \in Procs |-> NoReturn]
    /\ before = [p \in Procs |-> {}]
    /\ repeat = [p \in Procs |-> FALSE]
    /\ fault = [p \in Procs |-> FALSE]

QueryIdle == cnt = NoCount /\ res = NoRows

PageIdle ==
    /\ pg = NoPage
    /\ pgOp = "none"
    /\ pgIn = NoPageIn

ParseIdle == doc = MalformedDoc /\ ctxErr = FALSE /\ parseOut = NoParse

LateIdle ==
    /\ ft = NoFetch
    /\ uc = NoProcess
    /\ lp = [s \in Sources |-> LoopStart]
    /\ cycles = [s \in Sources |-> 0]
    /\ waited = [s \in Sources |-> FALSE]
    /\ ec = NoLogger
    /\ st = Opened
    /\ cl = [p \in Procs |-> "idle"]
    /\ det = NoDetail
    /\ lifecycle = "running"
    /\ val = NoValidate
    /\ hd = NoRequest
    /\ opOut = NoOperation

Init ==
    /\ news \in InitTables
    /\ StoreIdle /\ QueryIdle /\ PageIdle /\ ParseIdle /\ LateIdle

Next ==
    \/ \E p \in Procs : \E feed \in Feeds(p) : \E beginOK \in BOOLEAN :
           SaveNewsCall(p, feed, beginOK)
    \/ \E p \in Procs : \E envFail \in 0..MaxItems : \E commitOK \in BOOLEAN :
           SaveNewsExec(p, envFail, commitOK)

Spec == Init /\ [][Next]_vars

QueryNext ==
    \/ \E f \in Filters : GetNewsCountCall(f)
    \/ \E f \in Filters : GetNewsByFilterCall(f)

SpecQuery == Init /\ [][QueryNext]_vars

PageInit ==
    /\ news = {}
    /\ StoreIdle /\ QueryIdle /\ PageIdle /\ ParseIdle /\ LateIdle

PageNext ==
    \/ \E total \in (0 - 1)..MaxTotal : \E page \in (0 - 1)..MaxRequestedPage :
           PgNew(total, page)
    \/ \E n \in 0..(NEWS_PER_PAGE + 1) : PgSetResults(n)

SpecPage == PageInit /\ [][PageNext]_vars

ParseInit ==
    /\ news = {}
    /\ StoreIdle /\ QueryIdle /\ PageIdle /\ LateIdle
    /\ doc \in Docs
    /\ ctxErr \in BOOLEAN
    /\ parseOut = NoParse

SpecParse == ParseInit /\ [][ParseCall]_vars

\* One Fetch call after another against a server that answers or does not.
FetchNext ==
    \/ \E url \in Urls : FetchCall(url)
    \/ \E r \in Replies : ServerReply(r)
    \/ FetchReturn

SpecFetch == PageInit /\ [][FetchNext]_vars

\* The client takes the steps it can take; nothing makes the server answer.
SpecFetchFair == SpecFetch /\ WF_vars(FetchReturn)

\* One ProcessFeed call over a table that may already have rows.
PipeNext ==
    \/ \E url \in Urls : ProcessFeedCall(url)
    \/ \E r \in Replies : ServerReply(r)
    \/ FetchReturn
    \/ \E ctxDone, beginOK, commitOK \in BOOLEAN : \E envFail \in 0..MaxBodyItems :
           ProcessFeedRun(ctxDone, beginOK, envFail, commitOK)

SpecPipe == Init /\ [][PipeNext]_vars

\* The goroutines Run starts for the sources.
LoopNext ==
    \/ \E s \in Sources : \E ok \in BOOLEAN : RssParse(s, ok)
    \/ \E s \in Sources : LoopStep(s)
    \/ ErrLog

SpecLoop == PageInit /\ [][LoopNext]_vars

\* Every goroutine that can take a step takes it; every rss.Parse returns.
SpecLoopFair ==
    /\ SpecLoop
    /\ \A s \in Sources : WF_vars(\E ok \in BOOLEAN : RssParse(s, ok))
    /\ \A s \in Sources : WF_vars(LoopStep(s))
    /\ WF_vars(ErrLog)

\* The loops, and the cancellation of the context they were handed.
LifeNext ==
    \/ LoopNext
    \/ CancelLifecycle

SpecLife == PageInit /\ [][LifeNext]_vars

SpecLifeFair ==
    /\ SpecLife
    /\ \A s \in Sources : WF_vars(\E ok \in BOOLEAN : RssParse(s, ok))
    /\ \A s \in Sources : WF_vars(LoopStep(s))
    /\ WF_vars(ErrLog)

\* SaveNews calls, and then Close calls; SaveNews calls that start once a
\* Close has been called are left out here.
CloseNext ==
    \/ \E p \in Procs : \E feed \in Feeds(p) : \E beginOK \in BOOLEAN :
           /\ \A q \in Procs : cl[q] = "idle"
           /\ SaveNewsCall(p, feed, beginOK)
    \/ \E p \in Procs : \E envFail \in 0..MaxItems : \E commitOK \in BOOLEAN :
           SaveNewsExec(p, envFail, commitOK)
    \/ \E p \in Procs : CloseCall(p)
    \/ \E p \in Procs : CloseLock(p)
    \/ \E p \in Procs : ClosePool(p)

SpecClose == Init /\ [][CloseNext]_vars

\* Lookups by id, among count queries.
DetailNext ==
    \/ \E f \in Filters : GetNewsCountCall(f)
    \/ \E id \in NewsIds : GetDetailedNewsCall(id)

SpecDetail == Init /\ [][DetailNext]_vars

\* Validate over the values a Pagination can hold.
ValidateInit ==
    /\ news = {}
    /\ pg \in PageValues
    /\ pgOp = "none" /\ pgIn = NoPageIn
    /\ StoreIdle /\ QueryIdle /\ ParseIdle /\ LateIdle

SpecValidate == ValidateInit /\ [][ValidateCall]_vars

\* The two list handlers over every table.
HandlerNext ==
    \/ \E q \in ListParams : \E expired \in 0..2 : HandleGetNewsListCall(q, expired)
    \/ \E q \in Params : \E expired \in 0..2 : HandleFilterNewsByContentCall(q, expired)

SpecHandler == Init /\ [][HandlerNext]_vars

\* Close calls and the repository's operations, in any order.
CloseOpsNext ==
    \/ \E p \in Procs : CloseCall(p)
    \/ \E p \in Procs : CloseLock(p)
    \/ \E p \in Procs : ClosePool(p)
    \/ \E op \in Operations : OperationCall(op)

SpecCloseOps == Init /\ [][CloseOpsNext]_vars

(***************************************************************************)
(* The claims.                                                             *)
(***************************************************************************)
LinksOf(T) == {r.link : r \in T}
FeedLinks(feed) == {feed.Items[i].Link : i \in 1..Len(feed.Items)}

\* The least k with k * d >= n, for n >= 0.
CeilDiv(n, d) ==
    CHOOSE k \in 0..n : k * d >= n /\ \A j \in 0..n : j * d >= n => k <= j

C2_IdempotentResave ==
    \A p \in Procs :
        (pc[p] = "done" /\ repeat[p] /\ ~fault[p])
            => (ret[p].err = Nil /\ news = before[p])

C4_TransactionEnded ==
    \A p \in Procs :
        pc[p] = "done" => tx[p] \in {"none", "committed", "rolledback"}

\* C5: GetNewsCount returns the number of rows GetNewsByFilter returns for
\* the same category, author and date with no limit and no offset, and both
\* apply the same conditions.
C5_CountParity ==
    ( /\ cnt.called /\ res.called
      /\ cnt.filter.Category = res.filter.Category
      /\ cnt.filter.Author = res.filter.Author
      /\ cnt.filter.Date = res.filter.Date
      /\ res.filter.Limit = 0 /\ res.filter.Offset = 0 )
        => ( /\ cnt.n = Len(res.rows)
             /\ CountWhere(cnt.filter) = FilterWhere(res.filter) )

\* C6: whenever TotalPages > 0, CurrentPage lies in 1..TotalPages, HasNext is
\* CurrentPage < TotalPages and HasPrev is CurrentPage > 1.
C6_CurrentPageInRange ==
    (pgOp # "none" /\ pg.TotalPages > 0)
        => ( /\ pg.CurrentPage \in 1..pg.TotalPages
             /\ pg.HasNext = (pg.CurrentPage < pg.TotalPages)
             /\ pg.HasPrev = (pg.CurrentPage > 1) )

\* C7: TotalPages is ceil(TotalResults / 20), it is 0 exactly when
\* TotalResults is 0, and TotalResults is never negative.
C7_TotalPagesIsCeil ==
    pgOp # "none"
        => ( /\ pg.NewsPerPage = 20
             /\ pg.TotalResults >= 0
             /\ pg.TotalPages = CeilDiv(pg.TotalResults, 20)
             /\ (pg.TotalPages = 0 <=> pg.TotalResults = 0) )

\* SetResults has corrected a total of 45 on page 3 to 40, two pages.
C7_Witness ==
    /\ pgOp = "SetResults"
    /\ pgIn.total = 45
    /\ pg.TotalResults = 40
    /\ pg.TotalPages = 2

\* C8: a SetResults step that attaches fewer than NewsPerPage rows while
\* CurrentPage = TotalPages sets TotalResults to (TotalPages - 1) * NewsPerPage
\* + len(results), TotalPages to the ceiling of that, and the navigation
\* fields to what CurrentPage and the new TotalPages give; 45 results, page
\* 3, 3 rows: 43 results, 3 pages, no next page.
C8_ShortPageCorrection ==
    [][ ( /\ pgOp' = "SetResults"
          /\ Len(pg'.Results) < pg.NewsPerPage
          /\ pg.CurrentPage = pg.TotalPages )
        => LET total == (pg.TotalPages - 1) * pg.NewsPerPage + Len(pg'.Results)
           IN  /\ pg'.TotalResults = total
               /\ pg'.TotalPages = CeilDiv(total, pg.NewsPerPage)
               /\ pg'.CurrentPage = pg.CurrentPage
               /\ pg'.HasNext = (pg'.CurrentPage < pg'.TotalPages)
               /\ pg'.HasPrev = (pg'.CurrentPage > 1)
               /\ pg'.NextPage = (IF pg'.HasNext THEN pg'.CurrentPage + 1 ELSE 0)
               /\ pg'.PrevPage = (IF pg'.HasPrev THEN pg'.CurrentPage - 1 ELSE 0)
               /\ ( (pg.TotalResults = 45 /\ pg.CurrentPage = 3
                       /\ Len(pg'.Results) = 3)
                     => (pg'.TotalResults = 43 /\ pg'.TotalPages = 3
                           /\ ~pg'.HasNext) )
      ]_vars

\* New(45, 3) followed by SetResults of 3 rows.
C8_Witness ==
    /\ pgOp = "SetResults"
    /\ pgIn = [total |-> 45, page |-> 3]
    /\ Len(pg.Results) = 3
    /\ pg.TotalResults = 43
    /\ pg.TotalPages = 3
    /\ ~pg.HasNext

\* C9: New with totalResults > 0 and a page beyond the last returns the last
\* page, with no next page, HasPrev exactly when there is more than one page
\* and then PrevPage = TotalPages - 1; a page below 1 is treated as page 1.
C9_PageBoundary ==
    (pgOp = "New" /\ pgIn.total > 0)
        => LET last == CeilDiv(pgIn.total, 20)
           IN  /\ pgIn.page > last
                   => ( /\ pg.TotalPages = last
                        /\ pg.CurrentPage = last
                        /\ ~pg.HasNext /\ pg.NextPage = 0
                        /\ pg.HasPrev = (last > 1)
                        /\ (pg.HasPrev => pg.PrevPage = last - 1) )
               /\ pgIn.page < 1
                   => ( /\ pg.CurrentPage = 1
                        /\ ~pg.HasPrev /\ pg.PrevPage = 0
                        /\ pg.HasNext = (last > 1)
                        /\ pg.NextPage = (IF last > 1 THEN 2 ELSE 0) )

\* New(45, 5): page 3 of 3, previous page 2.
C9_Witness ==
    /\ pgOp = "New"
    /\ pgIn = [total |-> 45, page |-> 5]
    /\ pg.CurrentPage = 3
    /\ pg.HasPrev /\ pg.PrevPage = 2
    /\ ~pg.HasNext

Parsable(item) ==
    \E i \in 1..Len(Formats) :
        timeParse(Formats[i], TrimSpace(item.PubDate)).err = Nil

\* C10: for a document that decodes, Parse returns no error and a feed whose
\* items are the document's items whose pubDate some layout reads, in the
\* document's order, each with the instant read and none with the zero time.
C10_PartialParse ==
    (parseOut.called /\ ~ctxErr /\ doc.wellFormed)
        => LET kept == SelectSeq(doc.Items, Parsable)
               got == parseOut.feed.Items
           IN  /\ parseOut.err = Nil
               /\ Len(got) = Len(kept)
               /\ \A i \in 1..Len(got) :
                      /\ got[i].Title = kept[i].Title
                      /\ got[i].Link = kept[i].Link
                      /\ got[i].Description = kept[i].Description
                      /\ got[i].PubDate = kept[i].PubDate.t
                      /\ got[i].PubDate # ZeroTime

\* Three items, the middle one with no readable date: a feed of the two others.
C10_Witness ==
    /\ parseOut.called /\ parseOut.err = Nil
    /\ Len(doc.Items) = 3
    /\ Parsable(doc.Items[1]) /\ ~Parsable(doc.Items[2]) /\ Parsable(doc.Items[3])
    /\ doc.Items[1].PubDate # doc.Items[3].PubDate
    /\ Len(parseOut.feed.Items) = 2

C12_LoopsRunForever ==
    \A s \in Sources : []<><<\E ok \in BOOLEAN : RssParse(s, ok)>>_vars

\* C13: a loop that is about to call rss.Parse after a call that failed has
\* slept the interval since that call.
C13_FailedCycleWaits ==
    \A s \in Sources :
        (lp[s].pc = "parse" /\ lp[s].out = "err") => waited[s]

\* C14: whatever the other loops do or wait for, a loop about to call
\* rss.Parse can call it, a loop with an error to report can hand it over
\* now or once the error goroutine has logged the one it holds, and a step
\* that changes one loop's state leaves the other loops' state alone.
C14_SourceIsolation ==
    [][ \A s \in Sources :
          /\ lp[s].pc = "parse" => ENABLED (\E ok \in BOOLEAN : RssParse(s, ok))
          /\ (lp[s].pc = "send" /\ lp[s].out = "err")
                 => (ENABLED LoopStep(s) \/ ENABLED ErrLog)
          /\ <<lp[s], cycles[s], waited[s]>>' # <<lp[s], cycles[s], waited[s]>>
                 => \A o \in Sources \ {s} :
                        <<lp[o], cycles[o], waited[o]>>' = <<lp[o], cycles[o], waited[o]>>
      ]_vars

\* One loop has been blocked since its first cycle while the other went
\* through MaxCycles failing cycles.
C14_Witness ==
    \E a, b \in Sources :
        /\ a # b
        /\ lp[a] = [pc |-> "send", out |-> "ok"] /\ cycles[a] = 1
        /\ cycles[b] = MaxCycles /\ lp[b] = [pc |-> "parse", out |-> "err"]

C16_CloseIdempotent ==
    /\ st.released <= 1
    /\ \A p \in Procs : cl[p] = "returned" => (st.released = 1 /\ st.db = "nil")
    /\ \A p \in Procs :
           cl[p] = "closing" => ~\E q \in Procs : pc[q] = "done" /\ tx[q] = "open"

\* C17: GetDetailedNews returns the row of the id and no error when news has
\* such a row, and the not-found error, not the scan error, when it has none.
C17_DetailedNewsFound ==
    det.called =>
        IF \E r \in news : r.id = det.id
        THEN det.err = Nil /\ det.post \in news /\ det.post.id = det.id
        ELSE det.err = "not found" /\ det.err # "unable scan row"

\* C18 as stated: for a document that decodes, Parse returns no error.
C18_FailsOnlyOnMalformedRoot ==
    (parseOut.called /\ doc.wellFormed) => parseOut.err = Nil

\* C18 as amended: Parse returns an error exactly when its context is done
\* at the call or the document does not decode, the context's error in the
\* first case and the decoder's otherwise, with no feed.
C18_FailsOnCancelOrMalformedRoot ==
    parseOut.called =>
        /\ (parseOut.err # Nil) <=> (ctxErr \/ ~doc.wellFormed)
        /\ ctxErr => parseOut.err = "context"
        /\ (~ctxErr /\ ~doc.wellFormed) => parseOut.err = "failed to decode XML"
        /\ parseOut.err # Nil => parseOut.feed = EmptyFeed

\* Parse was called with a done context on a document that decodes and has
\* items of both kinds.
C18_Witness ==
    /\ parseOut.called /\ ctxErr /\ doc.wellFormed
    /\ \E i, j \in 1..Len(doc.Items) :
           Parsable(doc.Items[i]) /\ ~Parsable(doc.Items[j])
    /\ parseOut.err = "context"

\* C19: a Fetch call that waits for the server eventually returns.
C19_FetchReturns ==
    (ft.pc = "waiting") ~> (ft.pc = "returned")

\* C20: a Fetch call sends at most one request, exactly one when the request
\* can be built; it returns a stream exactly for a 200 reply, with no error
\* and the body open; otherwise it returns an error and no stream, the body
\* closed when there was a response.
C20_OneAttemptOneOutcome ==
    /\ ft.attempts <= 1
    /\ ft.pc = "returned" =>
           /\ ft.attempts = (IF ft.url.valid THEN 1 ELSE 0)
           /\ ft.stream <=> (ft.reply.err = Nil /\ ft.reply.status = 200)
           /\ ft.stream => (ft.err = Nil /\ ft.body = "open")
           /\ ~ft.stream => ft.err # Nil
           /\ (ft.reply.err = Nil /\ ft.reply.status # 200) => ft.body = "closed"
           /\ ft.reply.err # Nil => ft.body = "none"

\* A Fetch returned on a 404 reply: error, no stream, body closed.
C20_Witness ==
    /\ ft.pc = "returned"
    /\ ft.reply.err = Nil /\ ft.reply.status = 404
    /\ ft.err = "unexpected status code" /\ ~ft.stream /\ ft.body = "closed"
C24_ValidateErrors ==
    val.called
        => ( /\ (val.err # Nil) <=> ( \/ val.p.CurrentPage < 1
                                     \/ val.p.TotalResults < 0
                                     \/ val.p.NewsPerPage < 1 )
             /\ pg = val.p )

\* Validate has refused a Pagination whose only fault is NewsPerPage = 0.
C24_Witness ==
    /\ val.called
    /\ val.err # Nil
    /\ pg.CurrentPage >= 1 /\ pg.TotalResults >= 0 /\ pg.NewsPerPage = 0

\* C29: HasNext implies NextPage = CurrentPage + 1 <= TotalPages; HasPrev
\* implies PrevPage = CurrentPage - 1 in 1..TotalPages; NextPage is 0 when
\* HasNext is false, PrevPage is 0 when HasPrev is false; a Pagination over
\* no results has no previous page.
C29_NavigationTargets ==
    pgOp # "none"
        => ( /\ pg.HasNext => ( /\ pg.NextPage = pg.CurrentPage + 1
                                /\ pg.NextPage <= pg.TotalPages )
             /\ pg.HasPrev => ( /\ pg.PrevPage = pg.CurrentPage - 1
                                /\ pg.PrevPage \in 1..pg.TotalPages )
             /\ ~pg.HasNext => pg.NextPage = 0
             /\ ~pg.HasPrev => pg.PrevPage = 0
             /\ pg.TotalResults = 0 => ~pg.HasPrev )

\* C30: a SetResults step on a page that is not the last, or with at least
\* NewsPerPage rows, stores the rows and leaves TotalResults, TotalPages,
\* CurrentPage, HasNext, HasPrev, NextPage and PrevPage as they were; no
\* SetResults step changes CurrentPage or NewsPerPage.
C30_SetResultsFrame ==
    [][ pgOp' = "SetResults"
        => ( /\ pg'.CurrentPage = pg.CurrentPage
             /\ pg'.NewsPerPage = pg.NewsPerPage
             /\ ( \/ pg.CurrentPage # pg.TotalPages
                  \/ Len(pg'.Results) >= pg.NewsPerPage )
                   => ( /\ \E n \in 0..(NEWS_PER_PAGE + 1) : pg'.Results = ResultPage(n)
                        /\ pg' = [pg EXCEPT !.Results = pg'.Results] ) )
      ]_vars

\* New(45, 1) followed by SetResults of 3 rows: a short page that is not
\* the last, the totals untouched.
C30_Witness ==
    /\ pgOp = "SetResults"
    /\ pgIn = [total |-> 45, page |-> 1]
    /\ Len(pg.Results) = 3
    /\ pg.CurrentPage = 1
    /\ pg.TotalResults = 45
    /\ pg.TotalPages = 3
    /\ pg.HasNext /\ pg.NextPage = 2

\* C25: ProcessFeed runs fetch, parse and save in this order, each at most
\* once; a stage that fails ends the call with an error that names the
\* stage and wraps the stage's error, and no later stage runs; when Fetch
\* returned a stream, the stream is closed when ProcessFeed returns.
C25_StagesInOrder ==
    /\ uc.stages \in {<<>>, <<"fetch">>, <<"fetch", "parse">>,
                       <<"fetch", "parse", "save">>}
    /\ uc.pc = "returned"
           => ( /\ uc.err = "fetch failed"
                       <=> (uc.stages = <<"fetch">> /\ ft.err # Nil)
                /\ uc.err = "parse failed"
                       <=> (uc.stages = <<"fetch", "parse">> /\ ft.err = Nil)
                /\ uc.err \in {"save failed", Nil}
                       <=> (uc.stages = <<"fetch", "parse", "save">> /\ ft.err = Nil)
                /\ uc.err # Nil <=> uc.cause # Nil
                /\ uc.err = "fetch failed" => uc.cause = ft.err
                /\ ft.stream => ft.body = "closed" )

\* ProcessFeed has returned the error of a Parse that failed on a stream
\* that Fetch had opened.
C25_Witness ==
    /\ uc.pc = "returned"
    /\ uc.err = "parse failed"
    /\ ft.stream
    /\ ft.body = "closed"
    /\ uc.stages = <<"fetch", "parse">>

\* C23: once the lifecycle context is cancelled, there comes a time after
\* which no source's loop is ever again at the start of a cycle, about to
\* call rss.Parse.
C23_CancellationStopsLoops ==
    (lifecycle = "cancelled") ~> [](\A s \in Sources : lp[s].pc # "parse")

\* C26: when a list handler has made its result query, it made the count
\* query before it with the same filter, the limit of the filter is the
\* NewsPerPage of the Pagination of the response and its offset is
\* (CurrentPage - 1) * NewsPerPage of that Pagination.
C26_QueriedPageIsReportedPage ==
    (hd.handler # "none" /\ Len(hd.queries) = 2)
        => ( /\ hd.queries[1].op = "GetNewsCount"
             /\ hd.queries[2].op = "GetNewsByFilter"
             /\ hd.queries[1].filter = hd.queries[2].filter
             /\ hd.queries[2].filter.Limit = GetLimit(hd.pg)
             /\ hd.queries[2].filter.Offset = GetOffset(hd.pg) )

\* C27: when HandleFilterNewsByContent is given a page, a limit or a date
\* that is missing or that does not convert, it renders one response, an
\* error, and makes no repository call.
C27_BadParameterStops ==
    ( /\ hd.handler = "filtered"
      /\ \/ Atoi(hd.params.page).err # Nil
         \/ Atoi(hd.params.limit).err # Nil
         \/ ParseDay(hd.params.date).err # Nil )
        => ( /\ Len(hd.responses) = 1
             /\ hd.responses[1] = 400
             /\ hd.queries = <<>> )

\* C28: an operation of the repository that is called while a Close call is
\* releasing the pool, or after one has released it, ends with an error and
\* does not dereference the nil pool.
C28_NoUseAfterClose ==
    (opOut.called /\ (opOut.closing \/ opOut.closed))
        => opOut.outcome = "error"

====
